---- MODULE Spec2Model ----
(***************************************************************************)
(* Round/shoe simulation state machine of the blackjack trainer            *)
(* (hooks/useSimulationGame, the third revision in src/unnamed/part_008)   *)
(* together with the card primitives of services/blackjackLogic            *)
(* (src/unnamed/part_012).                                                 *)
(*                                                                         *)
(* Money is counted in cents.  Bets are chip sums (multiples of 50 cents), *)
(* so every amount the code computes is a whole number of cents and the    *)
(* Math.round(x * 100) / 100 of the source is modelled by RoundCents.      *)
(* Floating point error of the source's arithmetic is not modelled.        *)
(*                                                                         *)
(* A handler invoked by the caller runs on the latest render: it reads the *)
(* committed React state.  A setTimeout callback runs in the closure of    *)
(* the render that scheduled it: the values it reads from that closure     *)
(* (deck, insuranceBet, evenMoneyTaken) are stored in the timer record.    *)
(* roundFlagsRef is a ref and is always read and written in place.         *)
(*                                                                         *)
(* deck = [gen, len] stands for the first len cards of the gen-th shuffled *)
(* shoe; pop() takes the card at position len, so a card popped again from *)
(* a stale copy of the deck is the same card (gen, idx).  The order a      *)
(* shuffle produces is chosen once, in Init: the first four cards (the     *)
(* deal) are any ranks of Ranks, the cards after them one of Tails, and    *)
(* the order repeats below that; every shuffle of a behaviour yields it.   *)
(***************************************************************************)
EXTENDS Integers, Sequences, FiniteSets, TLC

\* ------------------------------------------------------------------ bounds
\* accepted bets in one behaviour
MaxRounds == 2
\* cards in one hand (Hit is not offered to the model's caller beyond it)
MaxCards == 4
\* setTimeout callbacks pending at once
MaxTimers == 2
\* shuffles by startGame in one behaviour
MaxShuffles == 1
\* player hands in one round (Split is not offered to the model's caller beyond it)
MaxHands == 3
\* cards in one hand and hands in one round played from a low shoe
LowShoeMaxCards == 6
LowShoeMaxHands == 4
\* calls in one behaviour that the table does not offer in the state they are made in
MaxStray == 1
\* rounds played in one behaviour of a counting session
MaxCountingRounds == 4
\* sessions started in one behaviour
MaxSessions == 2
\* running counts and cards dealt that the counting service is applied to
MaxCount == 6
MaxDealt == 130
\* calls of calculateAllActionEVs in one behaviour
MaxSolverCalls == 2
\* cards in a hand the recursion step is applied to
MaxStepCards == 3

\* --------------------------------------------------------- program constants
InitialBankroll == 10000
ReshuffleBelow == 15
\* the fewest cards placeBet deals from without shuffling
LowShoe == ReshuffleBelow
DeckSize == 52
\* setTimeout delays, in milliseconds
DelayInstantBJ == 1000
DelayAllBust == 1500
DelayInsurance == 500
DelayDealerDraw == 500
DelayAfterDealer == 1000
DelayToBetting == 2500

\* ranks played with (a subset of Rank) and the amounts a caller may bet
Ranks == {"A", "K", "6"}
\* the cards that follow the deal in the shuffled order
Tails == { <<"K", "A", "6", "K", "6">>, <<"6", "K", "K", "A", "A">> }
Shoes == { <<r1, r2, r3, r4>> \o t : r1 \in Ranks, r2 \in Ranks, r3 \in Ranks,
                                    r4 \in Ranks, t \in Tails }
\* the deals (player, dealer, player, hole) played against a caller that may
\* call anything at any time
StrayDeals == { <<"K", "K", "6", "6">>, <<"A", "A", "K", "K">>,
                <<"K", "A", "K", "6">>, <<"A", "A", "K", "6">> }
StrayShoes == { d \o <<"K", "A", "6", "K", "6">> : d \in StrayDeals }
BetAmounts == {500, 2500, 20000}
Actions == {"HIT", "STAND", "DOUBLE", "SPLIT", "SURRENDER"}
Choices == {"insure", "decline", "even"}
SimStates == {"SETUP", "BETTING", "DEALING", "INSURANCE", "PLAYER_TURN",
              "DEALER_TURN", "RESOLVING"}

\* rule sets played under; blackjackPayout in tenths (15 = 3:2, 12 = 6:5)
RuleSets ==
  { [deckCount |-> 6, dealerHitSoft17 |-> TRUE, surrender |-> "late",
     blackjackPayout |-> 15, simMinBet |-> 1000, insuranceAllowed |-> TRUE],
    [deckCount |-> 6, dealerHitSoft17 |-> FALSE, surrender |-> "none",
     blackjackPayout |-> 12, simMinBet |-> 1000, insuranceAllowed |-> FALSE] }
AllInThreshold == 10000

\* ------------------------------------------------------------- primitives
VALUES(rank) ==
  CASE rank = "A" -> 11
    [] rank \in {"10", "J", "Q", "K"} -> 10
    [] rank = "2" -> 2 [] rank = "3" -> 3 [] rank = "4" -> 4
    [] rank = "5" -> 5 [] rank = "6" -> 6 [] rank = "7" -> 7
    [] rank = "8" -> 8 [] rank = "9" -> 9

RECURSIVE SumVisible(_)
SumVisible(cards) ==
  IF cards = <<>> THEN 0
  ELSE (IF Head(cards).isHidden THEN 0 ELSE VALUES(Head(cards).rank))
       + SumVisible(Tail(cards))

RECURSIVE AcesVisible(_)
AcesVisible(cards) ==
  IF cards = <<>> THEN 0
  ELSE (IF ~Head(cards).isHidden /\ Head(cards).rank = "A" THEN 1 ELSE 0)
       + AcesVisible(Tail(cards))

RECURSIVE ReduceAces(_, _)
ReduceAces(value, aces) ==
  IF value > 21 /\ aces > 0 THEN ReduceAces(value - 10, aces - 1) ELSE value

calculateHandValue(cards) == ReduceAces(SumVisible(cards), AcesVisible(cards))

isSoftHand(cards) ==
  LET value == SumVisible(cards)
      aces == AcesVisible(cards)
  IN aces > 0 /\ value <= 21 /\ (IF value + 10 > 21 THEN FALSE ELSE TRUE)

createHand(bet) ==
  [cards |-> <<>>, bet |-> bet, isCompleted |-> FALSE, isBusted |-> FALSE,
   isBlackjack |-> FALSE, hasDoubled |-> FALSE, hasSurrendered |-> FALSE]

RoundCents(x) == x
\* x / 2 and bet * (1 + blackjackPayout), exact on chip sums
Half(x) == x \div 2
BlackjackReturn(bet, ratio) == (bet * (10 + ratio)) \div 10

Min(a, b) == IF a < b THEN a ELSE b

\* the copy of a hand with the card at index 1 (the hole card) turned up
Reveal(hand) ==
  [hand EXCEPT !.cards =
     [i \in DOMAIN hand.cards |->
        IF i = 2 THEN [hand.cards[i] EXCEPT !.isHidden = FALSE]
        ELSE hand.cards[i]]]

\* ------------------------------------------------------------------ state
VARIABLES gameState, bankroll, deck, playerHands, activeHandIndex, dealerHand,
          insuranceBet, insuranceOffered, evenMoneyTaken, roundFlags,
          roundStartBankroll, roundResult, timers, rules, shoe, shoeGen,
          nBets, stray,
          counting, probe, solver

progVars == <<gameState, bankroll, deck, playerHands, activeHandIndex,
              dealerHand, insuranceBet, insuranceOffered, evenMoneyTaken,
              roundFlags, roundStartBankroll, roundResult>>
vars == <<gameState, bankroll, deck, playerHands, activeHandIndex, dealerHand,
          insuranceBet, insuranceOffered, evenMoneyTaken, roundFlags,
          roundStartBankroll, roundResult, timers, rules, shoe, shoeGen,
          nBets, stray, counting, probe, solver>>

\* the simulation table's own state, without the counting session, the
\* counting service and the EV solver
tableVars == <<gameState, bankroll, deck, playerHands, activeHandIndex,
               dealerHand, insuranceBet, insuranceOffered, evenMoneyTaken,
               roundFlags, roundStartBankroll, roundResult, timers, rules,
               shoe, shoeGen, nBets, stray>>

NoFlags == [hadBlackjack |-> FALSE, didAllIn |-> FALSE, splitUsed |-> FALSE,
            das |-> FALSE]
EmptyDeck == [gen |-> 0, len |-> 0]

\* useCountingSession after construction, for a hook given deckCount decks
CountingStart(deckCount) ==
  [state |-> "SETUP", snapshot |-> <<>>, roundNumber |-> 0, deckLen |-> 0,
   cardsDealtTotal |-> 0, runningCount |-> 0, currentRound |-> <<>>,
   feedback |-> <<>>, isPlaying |-> FALSE, starts |-> <<>>,
   deckCount |-> deckCount, played |-> 0, sessions |-> 0]
CountingIdle == CountingStart(6)
\* no application of a counting-service function
NoProbe == [fn |-> "none", a |-> 0, b |-> 0, out |-> <<>>]
\* the solver module after loading: both caches empty, nothing returned yet
FreshSolver == [dealerCache |-> <<>>, playerCache |-> <<>>, calls |-> <<>>,
                dealerDist |-> <<>>, result |-> <<>>]

Init ==
  /\ gameState = "SETUP"
  /\ bankroll = InitialBankroll
  /\ deck = EmptyDeck
  /\ playerHands = <<>>
  /\ activeHandIndex = 0
  /\ dealerHand = createHand(0)
  /\ insuranceBet = 0
  /\ insuranceOffered = FALSE
  /\ evenMoneyTaken = FALSE
  /\ roundFlags = NoFlags
  /\ roundStartBankroll = <<>>
  /\ roundResult = <<>>
  /\ timers = <<>>
  /\ rules \in RuleSets
  /\ shoe \in Shoes
  /\ shoeGen = 0
  /\ nBets = 0
  /\ stray = 0
  /\ counting = CountingIdle
  /\ probe = NoProbe
  /\ solver = FreshSolver

\* ------------------------------------------------------------------- shoe
\* the rank of the card on top of deck d
TopRank(d) == shoe[((rules.deckCount * DeckSize - d.len) % Len(shoe)) + 1]

\* d.pop(): the card and the deck without it
TopCard(d) == [gen |-> d.gen, idx |-> d.len, rank |-> TopRank(d), isHidden |-> FALSE]
Popped(d) == [d EXCEPT !.len = d.len - 1]

FreshDeck(gen) == [gen |-> gen, len |-> rules.deckCount * DeckSize]

\* ----------------------------------------------------------------- timers
Timer(kind, delay, d, dHand, hands, ins, even) ==
  [kind |-> kind, delay |-> delay, deck |-> d, dHand |-> dHand, hands |-> hands,
   insuranceBet |-> ins, evenMoneyTaken |-> even]

\* resolveRound(dHand, hands) scheduled from the current render
ResolveTimer(delay, dHand, hands) ==
  Timer("resolve", delay, EmptyDeck, dHand, hands, insuranceBet, evenMoneyTaken)

RemoveAt(s, i) == SubSeq(s, 1, i - 1) \o SubSeq(s, i + 1, Len(s))

\* ------------------------------------------------------------- operations
startGame ==
  /\ shoeGen < MaxShuffles
  /\ gameState' = "BETTING"
  /\ deck' = FreshDeck(shoeGen + 1)
  /\ shoeGen' = shoeGen + 1
  /\ UNCHANGED <<bankroll, playerHands, activeHandIndex, dealerHand,
                 insuranceBet, insuranceOffered, evenMoneyTaken, roundFlags,
                 roundStartBankroll, roundResult, timers, rules, shoe, nBets>>

\* placeBet(currentBet): the deal and the branch taken after it
IsAllIn(pre, bet) == pre > 0 /\ bet >= pre /\ pre >= AllInThreshold

BetRejected(currentBet) == bankroll < currentBet

\* placeBet(currentBet) called times times (1 or 2) from one render: the
\* test, the cards and every value set are those of that render each time;
\* setBankroll's updater and setTimeout act once per call
placeBetCalled(currentBet, times) ==
  /\ nBets < MaxRounds
  /\ Len(timers) + times <= MaxTimers
  /\ IF BetRejected(currentBet)
     THEN UNCHANGED <<gameState, bankroll, deck, playerHands, activeHandIndex,
                      dealerHand, insuranceBet, insuranceOffered,
                      evenMoneyTaken, roundFlags, roundStartBankroll,
                      roundResult, timers, rules, shoe, shoeGen, nBets>>
     ELSE
       LET reshuffle == deck.len < ReshuffleBelow
           d0 == IF reshuffle THEN FreshDeck(shoeGen + 1) ELSE deck
           d1 == Popped(d0)
           d2 == Popped(d1)
           d3 == Popped(d2)
           d4 == Popped(d3)
       IN   LET p1 == TopCard(d0)
                dc1 == TopCard(d1)
                p2 == TopCard(d2)
                dc2 == [TopCard(d3) EXCEPT !.isHidden = TRUE]
                pHand == [createHand(currentBet) EXCEPT !.cards = <<p1, p2>>]
                dHand == [createHand(0) EXCEPT !.cards = <<dc1, dc2>>]
                dealerUpAce == rules.insuranceAllowed /\ dc1.rank = "A"
                pBJ == calculateHandValue(<<p1, p2>>) = 21
                \* d2 is the object already marked hidden
                dBJ == calculateHandValue(<<dc1, dc2>>) = 21
                dealerUp10Value == VALUES(dc1.rank) = 10
                peek == Reveal(dHand)
                dHasBJ == calculateHandValue(peek.cards) = 21
                          /\ Len(peek.cards) = 2
                resolveNow == IF dealerUp10Value /\ ~dealerUpAce THEN dHasBJ
                              ELSE IF dealerUpAce THEN FALSE
                              ELSE pBJ \/ dBJ
            IN /\ roundFlags' = [hadBlackjack |-> FALSE,
                                 didAllIn |-> IsAllIn(bankroll, currentBet),
                                 splitUsed |-> FALSE, das |-> FALSE]
               /\ roundStartBankroll' = <<bankroll>>
               /\ roundResult' = <<>>
               /\ insuranceBet' = 0
               /\ evenMoneyTaken' = FALSE
               /\ bankroll' =
                    IF times = 1 THEN RoundCents(bankroll - currentBet)
                    ELSE RoundCents(RoundCents(bankroll - currentBet)
                                    - currentBet)
               /\ deck' = d4
               /\ shoeGen' = IF reshuffle THEN shoeGen + 1 ELSE shoeGen
               /\ playerHands' = <<pHand>>
               /\ activeHandIndex' = 0
               /\ dealerHand' = IF resolveNow THEN peek ELSE dHand
               /\ insuranceOffered' =
                    (~(dealerUp10Value /\ ~dealerUpAce) /\ dealerUpAce)
               /\ gameState' =
                    IF dealerUp10Value /\ ~dealerUpAce
                    THEN (IF dHasBJ THEN "DEALING" ELSE "PLAYER_TURN")
                    ELSE IF dealerUpAce THEN "INSURANCE"
                    ELSE IF pBJ \/ dBJ THEN "DEALING" ELSE "PLAYER_TURN"
               /\ timers' =
                    IF ~resolveNow THEN timers
                    ELSE IF times = 1
                    THEN Append(timers, ResolveTimer(DelayInstantBJ, peek, <<pHand>>))
                    ELSE timers
                         \o <<ResolveTimer(DelayInstantBJ, peek, <<pHand>>),
                              ResolveTimer(DelayInstantBJ, peek, <<pHand>>)>>
               /\ nBets' = nBets + 1
               /\ UNCHANGED <<rules, shoe>>

placeBet(currentBet) == placeBetCalled(currentBet, 1)

\* ---------------------------------------------------------- playDealerTurn
\* the dealer draws on this total
DealerMustHit(val, isSoft) ==
  val < 17 \/ (val = 17 /\ isSoft /\ rules.dealerHitSoft17)

Unhidden(cards) == [i \in DOMAIN cards |-> [cards[i] EXCEPT !.isHidden = FALSE]]

\* the loop from (currentDeck, newHand): the deck and the hand it stops with,
\* and the shuffle counter (an empty deck is replaced)
RECURSIVE DealerLoop(_, _, _)
DealerLoop(currentDeck, newHand, gen) ==
  LET val == calculateHandValue(newHand.cards)
      isSoft == isSoftHand(newHand.cards)
  IN IF val > 21 \/ ~DealerMustHit(val, isSoft)
     THEN [updatedDeck |-> currentDeck, finalHand |-> newHand, gen |-> gen]
     ELSE LET d == IF currentDeck.len = 0 THEN FreshDeck(gen + 1) ELSE currentDeck
              g == IF currentDeck.len = 0 THEN gen + 1 ELSE gen
          IN DealerLoop(Popped(d),
                        [newHand EXCEPT !.cards = Append(@, TopCard(d))], g)

playDealerTurn(d, hand) ==
  DealerLoop(d, [hand EXCEPT !.cards = Unhidden(hand.cards)], shoeGen)

\* ------------------------------------------------------------ resolveRound
IsTwoCard21(cards) == calculateHandValue(cards) = 21 /\ Len(cards) = 2

\* what one hand returns
HandReturn(h, dHand, even) ==
  LET pVal == calculateHandValue(h.cards)
      pHasBJ == IsTwoCard21(h.cards)
      dVal == calculateHandValue(dHand.cards)
      dBusted == dVal > 21
      dHasBJ == IsTwoCard21(dHand.cards)
  IN IF h.hasSurrendered THEN Half(h.bet)
     ELSE IF h.isBusted THEN 0
     ELSE IF pHasBJ /\ dHasBJ THEN (IF even THEN h.bet * 2 ELSE h.bet)
     ELSE IF pHasBJ /\ ~dHasBJ
          THEN (IF even THEN h.bet * 2
                ELSE BlackjackReturn(h.bet, rules.blackjackPayout))
     ELSE IF dBusted THEN h.bet * 2
     ELSE IF pVal > dVal THEN h.bet * 2
     ELSE IF pVal = dVal THEN h.bet
     ELSE 0

RECURSIVE MainPayout(_, _, _)
MainPayout(hands, dHand, even) ==
  IF hands = <<>> THEN 0
  ELSE HandReturn(Head(hands), dHand, even) + MainPayout(Tail(hands), dHand, even)

InsurancePayout(ins, dHand) ==
  IF ins > 0 /\ IsTwoCard21(dHand.cards) THEN ins * 3 ELSE 0

RECURSIVE TotalBet(_)
TotalBet(hands) ==
  IF hands = <<>> THEN 0 ELSE Head(hands).bet + TotalBet(Tail(hands))

AnyTwoCard21(hands) == \E i \in DOMAIN hands : IsTwoCard21(hands[i].cards)

\* a callback may run when no callback scheduled before it is due sooner
CanFire(i) ==
  /\ i \in DOMAIN timers
  /\ \A j \in 1..(i - 1) : timers[j].delay > timers[i].delay

ToBettingTimer ==
  Timer("toBetting", DelayToBetting, EmptyDeck, createHand(0), <<>>, 0, FALSE)

\* the callback () => resolveRound(dHand, hands)
resolveRound(i) ==
  /\ CanFire(i)
  /\ timers[i].kind = "resolve"
  /\ LET t == timers[i]
         payout == MainPayout(t.hands, t.dHand, t.evenMoneyTaken)
                   + InsurancePayout(t.insuranceBet, t.dHand)
         newBank == bankroll + payout
         delta == newBank - (bankroll + TotalBet(t.hands))
     IN /\ gameState' = "RESOLVING"
        /\ roundFlags' = [roundFlags EXCEPT !.hadBlackjack =
                            @ \/ AnyTwoCard21(t.hands)]
        /\ bankroll' = newBank
        /\ roundResult' = <<[delta |-> delta, total |-> newBank]>>
        /\ timers' = Append(RemoveAt(timers, i), ToBettingTimer)
  /\ UNCHANGED <<deck, playerHands, activeHandIndex, dealerHand, insuranceBet,
                 insuranceOffered, evenMoneyTaken, roundStartBankroll, rules, shoe,
                 shoeGen, nBets>>

\* a callback that goes back to Betting with the hands still on the table
backToBettingKeepingHands(i) ==
  /\ CanFire(i)
  /\ timers[i].kind = "toBetting"
  /\ gameState' = "BETTING"
  /\ timers' = RemoveAt(timers, i)
  /\ UNCHANGED <<bankroll, deck, playerHands, activeHandIndex, dealerHand,
                 insuranceBet, insuranceOffered, evenMoneyTaken, roundFlags,
                 roundStartBankroll, roundResult, rules, shoe, shoeGen, nBets>>

\* the callback that ends resolveRound's pause
backToBetting(i) ==
  /\ CanFire(i)
  /\ timers[i].kind = "toBetting"
  /\ playerHands' = <<>>
  /\ dealerHand' = createHand(0)
  /\ insuranceBet' = 0
  /\ insuranceOffered' = FALSE
  /\ evenMoneyTaken' = FALSE
  /\ gameState' = "BETTING"
  /\ timers' = RemoveAt(timers, i)
  /\ UNCHANGED <<bankroll, deck, activeHandIndex, roundFlags,
                 roundStartBankroll, roundResult, rules, shoe, shoeGen, nBets>>

\* the callback of playDealer: the dealer plays from the deck of its closure
dealerDraws(i) ==
  /\ CanFire(i)
  /\ timers[i].kind = "dealer"
  /\ LET o == playDealerTurn(timers[i].deck, timers[i].dHand)
     IN
       /\ deck' = o.updatedDeck
       /\ dealerHand' = o.finalHand
       /\ shoeGen' = o.gen
       /\ timers' = Append(RemoveAt(timers, i),
                           Timer("resolve", DelayAfterDealer, EmptyDeck,
                                 o.finalHand, timers[i].hands,
                                 timers[i].insuranceBet,
                                 timers[i].evenMoneyTaken))
  /\ UNCHANGED <<gameState, bankroll, playerHands, activeHandIndex,
                 insuranceBet, insuranceOffered, evenMoneyTaken, roundFlags,
                 roundStartBankroll, roundResult, rules, shoe, nBets>>

\* ------------------------------------------------------- getAllowedActions
getAllowedActions ==
  IF activeHandIndex + 1 \notin DOMAIN playerHands THEN {}
  ELSE LET activeHand == playerHands[activeHandIndex + 1]
           twoCards == Len(activeHand.cards) = 2
       IN IF twoCards /\ calculateHandValue(activeHand.cards) = 21
          THEN {"STAND"}
          ELSE {"HIT", "STAND"}
               \cup (IF twoCards /\ bankroll >= activeHand.bet
                     THEN {"DOUBLE"} ELSE {})
               \cup (IF twoCards
                        /\ activeHand.cards[1].rank = activeHand.cards[2].rank
                        /\ bankroll >= activeHand.bet
                     THEN {"SPLIT"} ELSE {})
               \cup (IF twoCards /\ rules.surrender # "none"
                        /\ ~roundFlags.splitUsed
                     THEN {"SURRENDER"} ELSE {})

\* ------------------------------------------------------------ handleAction
AllHandsDone(hands) == \A i \in DOMAIN hands : hands[i].isCompleted
OnlySurrenderOrBust(hands) ==
  /\ AllHandsDone(hands)
  /\ \A i \in DOMAIN hands : hands[i].hasSurrendered \/ hands[i].isBusted

\* Double and Split return early on this
CannotAfford(hand) == bankroll < hand.bet

\* a Hit that marks a bust without completing the hand
HitHandLeftOpen(hand, card) ==
  LET cards == Append(hand.cards, card)
      bust == calculateHandValue(cards) > 21
  IN [hand EXCEPT !.cards = cards, !.isBusted = IF bust THEN TRUE ELSE @]

HitHand(hand, card) ==
  LET cards == Append(hand.cards, card)
      bust == calculateHandValue(cards) > 21
  IN [hand EXCEPT !.cards = cards,
                  !.isBusted = IF bust THEN TRUE ELSE @,
                  !.isCompleted = IF bust THEN TRUE ELSE @]

StandHand(hand) == [hand EXCEPT !.isCompleted = TRUE]

DoubleHand(hand, card) ==
  LET cards == Append(hand.cards, card)
  IN [hand EXCEPT !.cards = cards, !.bet = hand.bet * 2,
                  !.isCompleted = TRUE, !.hasDoubled = TRUE,
                  !.isBusted = calculateHandValue(cards) > 21]

SurrenderHand(hand) == [hand EXCEPT !.isCompleted = TRUE, !.hasSurrendered = TRUE]

\* a Double that always raises the das flag
FlagsAfterAnyDouble(flags) == [flags EXCEPT !.das = TRUE]

\* the round flags after a Double: das is raised once a split was used
FlagsAfterDouble(flags) ==
  [flags EXCEPT !.das = IF flags.splitUsed THEN TRUE ELSE @]

\* the two hands a split makes of hand, with the cards c1 and c2 drawn
SplitHands(hand, c1, c2) ==
  << [createHand(hand.bet) EXCEPT !.cards = <<hand.cards[1], c1>>],
     [createHand(hand.bet) EXCEPT !.cards = <<hand.cards[2], c2>> ] >>

\* the end of handleAction for Hit, Stand, Double and Surrender: newHand
\* replaces the active hand, d is the deck after the draw
FinishAction(newHand, d, nextHand, newBankroll, newFlags) ==
  LET updatedHands == [playerHands EXCEPT ![activeHandIndex + 1] = newHand]
      bustOut == nextHand /\ OnlySurrenderOrBust(updatedHands)
      more == activeHandIndex < Len(updatedHands) - 1
      toDealer == nextHand /\ ~bustOut /\ ~more
      revealed == Reveal(dealerHand)
  IN /\ playerHands' = updatedHands
     /\ deck' = d
     /\ bankroll' = newBankroll
     /\ roundFlags' = newFlags
     /\ dealerHand' = IF bustOut \/ toDealer THEN revealed ELSE dealerHand
     /\ activeHandIndex' = IF nextHand /\ ~bustOut /\ more
                           THEN activeHandIndex + 1 ELSE activeHandIndex
     /\ gameState' = IF toDealer THEN "DEALER_TURN" ELSE gameState
     /\ timers' =
          IF bustOut
          THEN Append(timers, ResolveTimer(DelayAllBust, revealed, updatedHands))
          ELSE IF toDealer
          THEN Append(timers, Timer("dealer", DelayDealerDraw, deck, revealed,
                                    updatedHands, insuranceBet, evenMoneyTaken))
          ELSE timers
     /\ UNCHANGED <<insuranceBet, insuranceOffered, evenMoneyTaken,
                    roundStartBankroll, roundResult, rules, shoe, shoeGen, nBets>>

\* handleAction stopped by the TypeError of a card that d.pop() did not
\* return: what was set before it stays set, nothing after it is
Thrown(newBankroll, newFlags) ==
  /\ bankroll' = newBankroll
  /\ roundFlags' = newFlags
  /\ UNCHANGED <<gameState, deck, playerHands, activeHandIndex, dealerHand,
                 insuranceBet, insuranceOffered, evenMoneyTaken,
                 roundStartBankroll, roundResult, timers, rules, shoe,
                 shoeGen, nBets>>

\* handleAction(action) for a caller that hits up to maxCards cards in a
\* hand and splits up to maxHands hands
handleActionWithin(action, maxCards, maxHands) ==
  /\ Len(timers) < MaxTimers
  /\ activeHandIndex + 1 \in DOMAIN playerHands
  /\ LET currentHand == playerHands[activeHandIndex + 1]
     IN CASE action = "HIT" ->
               /\ Len(currentHand.cards) < maxCards
               /\ IF deck.len = 0
                  THEN Thrown(bankroll, roundFlags)
                  ELSE LET newHand == HitHand(currentHand, TopCard(deck))
                       IN FinishAction(newHand, Popped(deck), newHand.isBusted,
                                       bankroll, roundFlags)
          [] action = "STAND" ->
               FinishAction(StandHand(currentHand), deck, TRUE, bankroll,
                            roundFlags)
          [] action = "DOUBLE" ->
               /\ Len(currentHand.cards) < maxCards
               /\ ~CannotAfford(currentHand)
               /\ IF deck.len = 0
                  THEN Thrown(bankroll - currentHand.bet, roundFlags)
                  ELSE FinishAction(DoubleHand(currentHand, TopCard(deck)),
                                    Popped(deck), TRUE,
                                    bankroll - currentHand.bet,
                                    FlagsAfterDouble(roundFlags))
          [] action = "SURRENDER" ->
               FinishAction(SurrenderHand(currentHand), deck, TRUE, bankroll,
                            roundFlags)
          [] action = "SPLIT" ->
               /\ Len(playerHands) < maxHands
               /\ ~CannotAfford(currentHand)
               /\ IF deck.len < 2
                  THEN Thrown(bankroll - currentHand.bet,
                              [roundFlags EXCEPT !.splitUsed = TRUE])
                  ELSE
                    /\ LET pair == SplitHands(currentHand, TopCard(deck),
                                              TopCard(Popped(deck)))
                       IN /\ playerHands' =
                               SubSeq(playerHands, 1, activeHandIndex) \o pair
                               \o SubSeq(playerHands, activeHandIndex + 2,
                                         Len(playerHands))
                          /\ deck' = Popped(Popped(deck))
                    /\ bankroll' = bankroll - currentHand.bet
                    /\ roundFlags' = [roundFlags EXCEPT !.splitUsed = TRUE]
                    /\ UNCHANGED <<gameState, activeHandIndex, dealerHand,
                                   insuranceBet, insuranceOffered,
                                   evenMoneyTaken, roundStartBankroll,
                                   roundResult, timers, rules, shoe, shoeGen,
                                   nBets>>

handleAction(action) == handleActionWithin(action, MaxCards, MaxHands)

\* ------------------------------------------------- handleInsuranceDecision
\* what "insure" places
InsurancePlaced ==
  LET mainBet == IF playerHands # <<>> THEN playerHands[1].bet ELSE 0
      maxInsurance == Min(Half(mainBet), bankroll)
  IN IF maxInsurance > 0 THEN RoundCents(maxInsurance) ELSE 0

PlayerHasBJ ==
  /\ playerHands # <<>>
  /\ IsTwoCard21(playerHands[1].cards)

\* a decision procedure that resolves only on a dealer blackjack
ResolvesOnDealerBJOnly(dHasBJ, even) == dHasBJ

\* the round is resolved straight after the decision
ResolvesAfterDecision(dHasBJ, even) == dHasBJ \/ even

handleInsuranceDecision(choice) ==
  /\ Len(timers) < MaxTimers
  /\ insuranceOffered
  /\ ~(choice = "even" /\ ~PlayerHasBJ)
  /\ LET placed == IF choice = "insure" THEN InsurancePlaced ELSE 0
         even == choice = "even"
         peek == Reveal(dealerHand)
         dHasBJ == IsTwoCard21(peek.cards)
         resolves == ResolvesAfterDecision(dHasBJ, even)
     IN /\ bankroll' = IF placed > 0 THEN RoundCents(bankroll - placed)
                       ELSE bankroll
        /\ insuranceBet' = placed
        /\ evenMoneyTaken' = even
        /\ insuranceOffered' = FALSE
        /\ dealerHand' = IF resolves THEN peek ELSE dealerHand
        /\ timers' = IF resolves
                     THEN Append(timers, ResolveTimer(DelayInsurance, peek,
                                                      playerHands))
                     ELSE timers
        /\ gameState' = IF resolves THEN gameState ELSE "PLAYER_TURN"
  /\ UNCHANGED <<deck, playerHands, activeHandIndex, roundFlags,
                 roundStartBankroll, roundResult, rules, shoe, shoeGen, nBets>>

resetGame ==
  /\ gameState' = "SETUP"
  /\ playerHands' = <<>>
  /\ activeHandIndex' = 0
  /\ dealerHand' = createHand(0)
  /\ roundResult' = <<>>
  /\ insuranceBet' = 0
  /\ insuranceOffered' = FALSE
  /\ evenMoneyTaken' = FALSE
  /\ UNCHANGED <<bankroll, deck, roundFlags, roundStartBankroll, timers,
                 rules, shoe, shoeGen, nBets>>

\* ------------------------------------------------------------- the caller
\* what the table offers in the current state
OfferedStart == gameState = "SETUP"
OfferedBet(b) ==
  gameState = "BETTING" /\ ~(bankroll < b \/ b < rules.simMinBet)
OfferedAction(a) == gameState = "PLAYER_TURN" /\ a \in getAllowedActions
OfferedDecision == gameState = "INSURANCE"
OfferedLeave == gameState = "BETTING"

\* a call that is offered, or one of the MaxStray calls that are not
\* the counting session, the counting service and the EV solver are not
\* touched by the table
OffTable == UNCHANGED <<counting, probe, solver>>

Call(offered) ==
  /\ IF offered THEN stray' = stray
     ELSE stray < MaxStray /\ stray' = stray + 1
  /\ OffTable

Callback == stray' = stray /\ OffTable

AnyStartGame == startGame /\ Call(OfferedStart)
AnyPlaceBet == \E b \in BetAmounts : placeBet(b) /\ Call(OfferedBet(b))
AnyAction == \E a \in Actions : handleAction(a) /\ Call(OfferedAction(a))
AnyDecision == \E c \in Choices : handleInsuranceDecision(c) /\ Call(OfferedDecision)
AnyLeave == resetGame /\ Call(OfferedLeave)
FireResolve == \E i \in DOMAIN timers : resolveRound(i) /\ Callback
FireBackToBetting == \E i \in DOMAIN timers : backToBetting(i) /\ Callback
FireDealer == \E i \in DOMAIN timers : dealerDraws(i) /\ Callback

UIStartGame == OfferedStart /\ startGame /\ Callback
UIPlaceBet == \E b \in BetAmounts : OfferedBet(b) /\ placeBet(b) /\ Callback
UIAction == \E a \in Actions : OfferedAction(a) /\ handleAction(a) /\ Callback
UIDecision == \E c \in Choices : OfferedDecision /\ handleInsuranceDecision(c) /\ Callback
UILeave == OfferedLeave /\ resetGame /\ Callback

\* the table driven through what it offers
Next ==
  \/ UIStartGame
  \/ UIPlaceBet
  \/ UIAction
  \/ UIDecision
  \/ UILeave
  \/ FireResolve
  \/ FireBackToBetting
  \/ FireDealer

Spec == Init /\ [][Next]_vars

\* every operation in every state
NextAny ==
  \/ AnyStartGame
  \/ AnyPlaceBet
  \/ AnyAction
  \/ AnyDecision
  \/ AnyLeave
  \/ FireResolve
  \/ FireBackToBetting
  \/ FireDealer

InitAny == Init /\ shoe \in StrayShoes

SpecAny == InitAny /\ [][NextAny]_vars

\* a caller that may call placeBet a second time before the table has
\* rendered again
UIPlaceBetTwice ==
  \E b \in BetAmounts : OfferedBet(b) /\ placeBetCalled(b, 2) /\ Callback

NextSameRender ==
  \/ UIStartGame
  \/ UIPlaceBet
  \/ UIPlaceBetTwice
  \/ UIAction
  \/ UIDecision
  \/ UILeave
  \/ FireResolve
  \/ FireBackToBetting
  \/ FireDealer

SpecSameRender == InitAny /\ [][NextSameRender]_vars

\* a shoe dealt down to the last cards that placeBet deals from without
\* shuffling: the first LowShoe entries are those cards in the order they
\* are popped, the deal first
LowShoeFiller == <<"K", "6", "K", "6", "K", "6", "K", "6", "K", "6", "K", "6">>
LowShoes ==
  { <<"A", "6", "A", "K">> \o t \o LowShoeFiller :
      t \in { <<"A", "A", "A", "A", "A", "A", "A", "A", "A", "A", "A">>,
              <<"A", "A", "A", "A", "6", "A", "A", "6", "A", "A", "A">>,
              <<"6", "A", "A", "6", "A", "A", "A", "A", "6", "A", "A">> } }

\* Betting after earlier rounds that left the bankroll where it started
\* (the last one a push) and LowShoe cards in the shoe; one more bet is
\* accepted
InitLowShoe ==
  /\ gameState = "BETTING"
  /\ bankroll = InitialBankroll
  /\ rules \in RuleSets
  /\ deck = [gen |-> 1, len |-> LowShoe]
  /\ playerHands = <<>>
  /\ activeHandIndex = 0
  /\ dealerHand = createHand(0)
  /\ insuranceBet = 0
  /\ insuranceOffered = FALSE
  /\ evenMoneyTaken = FALSE
  /\ roundFlags = NoFlags
  /\ roundStartBankroll = <<InitialBankroll>>
  /\ roundResult = <<[delta |-> 0, total |-> InitialBankroll]>>
  /\ timers = <<>>
  /\ shoe \in LowShoes
  /\ shoeGen = 1
  /\ nBets = MaxRounds - 1
  /\ stray = 0
  /\ counting = CountingIdle
  /\ probe = NoProbe
  /\ solver = FreshSolver

\* the table's action buttons pressed by a player who hits and splits further
UILongAction ==
  \E a \in Actions :
    /\ OfferedAction(a)
    /\ handleActionWithin(a, LowShoeMaxCards, LowShoeMaxHands)
    /\ Callback

NextLowShoe ==
  \/ UIPlaceBet
  \/ UILongAction
  \/ FireResolve
  \/ FireBackToBetting
  \/ FireDealer

SpecLowShoe == InitLowShoe /\ [][NextLowShoe]_vars

\* -------------------------------------------------------- countingService
\* decksRemaining is held in half decks: h stands for h / 2 decks.
\* Math.round(x) is floor(x + 1/2); \div is the floor division.
CardsPerDeck == 52

\* Math.round(num / den) for den > 0
MathRound(num, den) == (2 * num + den) \div (2 * den)

\* calculateTrueCount(runningCount, h / 2)
calculateTrueCount(runningCount, h) ==
  IF h <= 0 THEN 0 ELSE MathRound(2 * runningCount, h)

\* calculateDecksRemaining(totalDecks, cardsDealt), in half decks:
\* Math.round(cardsLeft / 52 * 2) is the number of half decks returned
calculateDecksRemaining(totalDecks, cardsDealt) ==
  MathRound(2 * (totalDecks * CardsPerDeck - cardsDealt), CardsPerDeck)

\* the applications of the two functions
TrueCountInputs ==
  { [fn |-> "calculateTrueCount", a |-> rc, b |-> h, out |-> <<>>] :
      rc \in (0 - MaxCount)..MaxCount, h \in (0 - 2)..12 }
DecksRemainingInputs ==
  { [fn |-> "calculateDecksRemaining", a |-> d, b |-> c, out |-> <<>>] :
      d \in 1..2, c \in 0..MaxDealt }

ApplyTrueCount ==
  /\ probe.fn = "calculateTrueCount" /\ probe.out = <<>>
  /\ probe' = [probe EXCEPT !.out = <<calculateTrueCount(probe.a, probe.b)>>]
  /\ UNCHANGED <<tableVars, counting, solver>>

ApplyDecksRemaining ==
  /\ probe.fn = "calculateDecksRemaining" /\ probe.out = <<>>
  /\ probe' = [probe EXCEPT !.out = <<calculateDecksRemaining(probe.a, probe.b)>>]
  /\ UNCHANGED <<tableVars, counting, solver>>

TableAtStart ==
  /\ gameState = "SETUP" /\ bankroll = InitialBankroll /\ deck = EmptyDeck
  /\ playerHands = <<>> /\ activeHandIndex = 0 /\ dealerHand = createHand(0)
  /\ insuranceBet = 0 /\ insuranceOffered = FALSE /\ evenMoneyTaken = FALSE
  /\ roundFlags = NoFlags /\ roundStartBankroll = <<>> /\ roundResult = <<>>
  /\ timers = <<>> /\ rules = CHOOSE r \in RuleSets : r.dealerHitSoft17
  /\ shoe = CHOOSE sh \in Shoes : TRUE
  /\ shoeGen = 0 /\ nBets = 0 /\ stray = 0

InitService ==
  /\ TableAtStart
  /\ counting = CountingIdle
  /\ solver = FreshSolver
  /\ probe \in TrueCountInputs \cup DecksRemainingInputs

NextService == ApplyTrueCount \/ ApplyDecksRemaining

SpecService == InitService /\ [][NextService]_vars

\* ------------------------------------------------------ useCountingSession
\* A round is held by its counts: the cards it dealt (allCards.length) and
\* the sum of their Hi-Lo values. config.decisionDelay is 0 (its initial
\* value), so playRound runs to its end without awaiting.
CountingReshuffleBelow == 52
StartDelay == 100
DeckCounts == {1, 2}
\* cards one round may deal, and the Hi-Lo sums of a round
RoundSizes == {4, 26}
RoundDeltas == {0 - 1, 2}

NeedsReshuffleAtBoundary(len) == len <= CountingReshuffleBelow

NeedsReshuffle(len) == len < CountingReshuffleBelow

startSession ==
  /\ counting.state = "SETUP"
  /\ counting.sessions < MaxSessions
  /\ counting' = [counting EXCEPT
       !.snapshot = <<[deckCount |-> counting.deckCount]>>,
       !.roundNumber = 0, !.runningCount = 0, !.cardsDealtTotal = 0,
       !.deckLen = counting.deckCount * CardsPerDeck,
       !.state = "PLAYING",
       !.starts = Append(@, [deckCount |-> counting.deckCount, delay |-> StartDelay]),
       !.sessions = @ + 1]
  /\ UNCHANGED <<tableVars, probe, solver>>

\* playRound(currentDeck, currentRC, totalCardsDealt, round, sessionSnapshot)
\* dealing n cards whose Hi-Lo values sum to delta
playRound(c, len, currentRC, totalCardsDealt, round, snap, n, delta) ==
  IF c.isPlaying THEN c
  ELSE LET reshuffle == NeedsReshuffle(len)
           len1      == IF reshuffle THEN snap.deckCount * CardsPerDeck ELSE len
           rc1       == IF reshuffle THEN 0 ELSE currentRC
           dealt1    == IF reshuffle THEN 0 ELSE totalCardsDealt
       IN [c EXCEPT !.runningCount = rc1, !.roundNumber = round,
                    !.feedback = <<>>,
                    !.currentRound = <<[n |-> n, delta |-> delta]>>,
                    !.deckLen = len1 - n,
                    !.cardsDealtTotal = dealt1 + n,
                    !.isPlaying = FALSE,
                    !.played = @ + 1]

\* the callback startSession scheduled: the first round, on a fresh shoe
firstRound(i, n, delta) ==
  /\ i \in DOMAIN counting.starts
  /\ counting.played < MaxCountingRounds
  /\ LET snap == counting.starts[i]
         c    == [counting EXCEPT !.starts = RemoveAt(@, i)]
     IN counting' = playRound(c, snap.deckCount * CardsPerDeck, 0, 0, 1,
                              snap, n, delta)
  /\ UNCHANGED <<tableVars, probe, solver>>

\* the cards-dealt count submitCount computes decksRemaining from
SubmittedCardsDealt == counting.cardsDealtTotal + counting.currentRound[1].n

\* the cards-dealt count nextRound starts the next round with
CarriedCardsDealt ==
  counting.cardsDealtTotal
  + (IF counting.currentRound = <<>> THEN 0 ELSE counting.currentRound[1].n)

submitCount ==
  /\ counting.state = "PLAYING" /\ counting.feedback = <<>>
  /\ counting.currentRound # <<>> /\ counting.snapshot # <<>>
  /\ LET round   == counting.currentRound[1]
         rcAfter == counting.runningCount + round.delta
         decks   == calculateDecksRemaining(counting.snapshot[1].deckCount,
                      SubmittedCardsDealt)
     IN counting' = [counting EXCEPT
          !.feedback = <<[decksRemaining |-> decks,
                          rcBefore |-> counting.runningCount,
                          deltaRC |-> round.delta, rcAfter |-> rcAfter,
                          trueCount |-> calculateTrueCount(rcAfter, decks)]>>,
          !.state = "FEEDBACK",
          !.runningCount = rcAfter]
  /\ UNCHANGED <<tableVars, probe, solver>>

nextRound(n, delta) ==
  /\ counting.state = "FEEDBACK"
  /\ counting.played < MaxCountingRounds
  /\ LET c == [counting EXCEPT !.state = "PLAYING", !.feedback = <<>>]
     IN counting' =
          IF counting.snapshot = <<>> THEN c
          ELSE playRound(c, counting.deckLen, counting.runningCount,
                         CarriedCardsDealt,
                         counting.roundNumber + 1, counting.snapshot[1],
                         n, delta)
  /\ UNCHANGED <<tableVars, probe, solver>>

endSession ==
  /\ counting.state = "FEEDBACK"
  /\ counting' = [counting EXCEPT
       !.state = "SETUP", !.snapshot = <<>>, !.roundNumber = 0,
       !.runningCount = 0, !.cardsDealtTotal = 0, !.currentRound = <<>>,
       !.feedback = <<>>]
  /\ UNCHANGED <<tableVars, probe, solver>>

FirstRound == \E i \in DOMAIN counting.starts, n \in RoundSizes,
                 delta \in RoundDeltas : firstRound(i, n, delta)
NextRound == \E n \in RoundSizes, delta \in RoundDeltas : nextRound(n, delta)

InitCounting ==
  /\ TableAtStart
  /\ \E d \in DeckCounts : counting = CountingStart(d)
  /\ probe = NoProbe
  /\ solver = FreshSolver

NextCounting ==
  \/ startSession
  \/ FirstRound
  \/ submitCount
  \/ NextRound
  \/ endSession

SpecCounting == InitCounting /\ [][NextCounting]_vars

\* ---------------------------------------------------------------- EV solver
\* Probabilities and EVs are held exactly: a number is six limbs
\* <<l1, .., l6>> standing for (l1 + l2 * B + .. + l6 * B^5) / (2 * 13^30)
\* with B = 13^6, l1..l5 in 0..B-1 and l6 any integer, so that 1/13, 4/13
\* and 1/2 of a number are numbers again down to thirty draws deep.
LimbBase == 4826809
Limbs == 1..6
Zero == <<0, 0, 0, 0, 0, 0>>
One == <<0, 0, 0, 0, 0, 2>>

Normalize(x) ==
  LET c1 == x[1] \div LimbBase
      t2 == x[2] + c1
      c2 == t2 \div LimbBase
      t3 == x[3] + c2
      c3 == t3 \div LimbBase
      t4 == x[4] + c3
      c4 == t4 \div LimbBase
      t5 == x[5] + c4
      c5 == t5 \div LimbBase
  IN <<x[1] % LimbBase, t2 % LimbBase, t3 % LimbBase, t4 % LimbBase,
       t5 % LimbBase, x[6] + c5>>

Plus(x, y) == Normalize([i \in Limbs |-> x[i] + y[i]])
\* k * x for a small integer k
Scale(k, x) == Normalize([i \in Limbs |-> k * x[i]])
\* x / 13
Div13(x) ==
  LET q6 == x[6] \div 13
      t5 == (x[6] % 13) * LimbBase + x[5]
      t4 == (t5 % 13) * LimbBase + x[4]
      t3 == (t4 % 13) * LimbBase + x[3]
      t2 == (t3 % 13) * LimbBase + x[2]
      t1 == (t2 % 13) * LimbBase + x[1]
  IN <<t1 \div 13, t2 \div 13, t3 \div 13, t4 \div 13, t5 \div 13, q6>>
\* x / 2
HalfOf(x) ==
  LET t5 == (x[6] % 2) * LimbBase + x[5]
      t4 == (t5 % 2) * LimbBase + x[4]
      t3 == (t4 % 2) * LimbBase + x[3]
      t2 == (t3 % 2) * LimbBase + x[2]
      t1 == (t2 % 2) * LimbBase + x[1]
  IN <<t1 \div 2, t2 \div 2, t3 \div 2, t4 \div 2, t5 \div 2, x[6] \div 2>>
Less(x, y) ==
  \E i \in Limbs : x[i] < y[i] /\ \A j \in (i + 1)..6 : x[j] = y[j]
MathMax(x, y) == IF Less(x, y) THEN y ELSE x

\* PROB_CARD(val) is ProbWeight(val) / 13: 1/13 for 2..9 and the Ace (11),
\* 4/13 for 10
ProbWeightAllAlike(val) == 1

ProbWeight(val) ==
  IF val >= 2 /\ val <= 9 THEN 1
  ELSE IF val = 10 THEN 4
  ELSE IF val = 11 THEN 1
  ELSE 0

\* cardValues: [2, 3, .., 10, 11]
cardValues == [k \in 1..10 |-> k + 1]

\* the sum over the ten card values of PROB_CARD(cardValues[k]) * xs[k]:
\* the weighted limbs are added first and the sum is divided by 13 once
ExpectOverCards(xs) ==
  Div13(Normalize([i \in Limbs |->
      ProbWeight(cardValues[1]) * xs[1][i] + ProbWeight(cardValues[2]) * xs[2][i]
    + ProbWeight(cardValues[3]) * xs[3][i] + ProbWeight(cardValues[4]) * xs[4][i]
    + ProbWeight(cardValues[5]) * xs[5][i] + ProbWeight(cardValues[6]) * xs[6][i]
    + ProbWeight(cardValues[7]) * xs[7][i] + ProbWeight(cardValues[8]) * xs[8][i]
    + ProbWeight(cardValues[9]) * xs[9][i] + ProbWeight(cardValues[10]) * xs[10][i]]))

\* DealerDist
Buckets == {"d17", "d18", "d19", "d20", "d21", "bust", "bj"}
Bucket(v) ==
  CASE v = 17 -> "d17" [] v = 18 -> "d18" [] v = 19 -> "d19"
    [] v = 20 -> "d20" [] v = 21 -> "d21"
\* the DealerDist with mass f[b] in bucket b
DistOf(f) ==
  [d17 |-> f["d17"], d18 |-> f["d18"], d19 |-> f["d19"], d20 |-> f["d20"],
   d21 |-> f["d21"], bust |-> f["bust"], bj |-> f["bj"]]
UnitDist(bucket) ==
  DistOf([b \in Buckets |-> IF b = bucket THEN One ELSE Zero])

\* the cache key of getDealerOutcomeProbs
DealerKey(currentVal, isSoft, h17) == <<currentVal, isSoft, h17>>

DealerMustHitAt(currentVal, isSoft, h17) ==
  IF currentVal < 17 THEN TRUE
  ELSE IF currentVal = 17 THEN isSoft /\ h17
  ELSE FALSE

\* one dealer draw: the total and softness after cardVal
DealerNextVal(currentVal, isSoft, cardVal) ==
  LET nextSoft == isSoft \/ cardVal = 11
  IN IF currentVal + cardVal > 21 /\ nextSoft
     THEN [val |-> currentVal + cardVal - 10, soft |-> FALSE]
     ELSE [val |-> currentVal + cardVal, soft |-> nextSoft]

\* the end of the for loop of getDealerOutcomeProbs: subs[k] is what its
\* k-th recursive call returned; the distribution accumulated, and
\* dealerCache with it stored under cacheKey unless isFirstCard
DealerHitLoop(subs, cacheKey, isFirstCard) ==
  LET loop == [cache |-> subs[10].cache,
               dist |-> DistOf([b \in Buckets |->
                 ExpectOverCards([k \in 1..10 |-> subs[k].dist[b]])])]
  IN [dist |-> loop.dist,
      cache |-> IF isFirstCard THEN loop.cache
                ELSE (cacheKey :> loop.dist) @@ loop.cache]

RECURSIVE getDealerOutcomeProbs(_, _, _, _, _)

\* getDealerOutcomeProbs(currentVal, isSoft, rules, isFirstCard) run with
\* dealerCache = cache: the distribution returned and dealerCache
\* afterwards. The for loop over cardValues is written out: sub(k, c) is
\* its k-th recursive call, made with the cache the call before it left.
getDealerOutcomeProbs(currentVal, isSoft, h17, isFirstCard, cache) ==
  LET cacheKey == DealerKey(currentVal, isSoft, h17)
  IN IF ~isFirstCard /\ cacheKey \in DOMAIN cache
     THEN [dist |-> cache[cacheKey], cache |-> cache]
     ELSE IF currentVal > 21
     THEN [dist |-> UnitDist("bust"), cache |-> cache]
     ELSE IF ~DealerMustHitAt(currentVal, isSoft, h17)
     THEN [dist |-> IF currentVal = 21 /\ isFirstCard THEN UnitDist("bj")
                    ELSE UnitDist(Bucket(currentVal)),
           cache |-> cache]
     ELSE LET sub(k, c) ==
                LET next == DealerNextVal(currentVal, isSoft, cardValues[k])
                IN getDealerOutcomeProbs(next.val, next.soft, h17, FALSE, c)
              s1  == sub(1, cache)
              s2  == sub(2, s1.cache)
              s3  == sub(3, s2.cache)
              s4  == sub(4, s3.cache)
              s5  == sub(5, s4.cache)
              s6  == sub(6, s5.cache)
              s7  == sub(7, s6.cache)
              s8  == sub(8, s7.cache)
              s9  == sub(9, s8.cache)
              s10 == sub(10, s9.cache)
          IN DealerHitLoop(<<s1, s2, s3, s4, s5, s6, s7, s8, s9, s10>>,
                           cacheKey, isFirstCard)

\* calculateStandEV(playerTotal, dealerDist)
calculateStandEV(playerTotal, dealerDist) ==
  IF playerTotal > 21 THEN Scale(0 - 1, One)
  ELSE LET sign(d) == IF playerTotal > d THEN 1
                      ELSE IF playerTotal < d THEN 0 - 1
                      ELSE 0
       IN Normalize([i \in Limbs |->
              dealerDist["bust"][i]
            + sign(17) * dealerDist[Bucket(17)][i]
            + sign(18) * dealerDist[Bucket(18)][i]
            + sign(19) * dealerDist[Bucket(19)][i]
            + sign(20) * dealerDist[Bucket(20)][i]
            + sign(21) * dealerDist[Bucket(21)][i]])

\* one player draw: the total and softness after card c
PlayerNextTotal(total, isSoft, c) ==
  LET nextSoft == isSoft \/ c = 11
  IN IF total + c > 21 /\ nextSoft
     THEN [total |-> total + c - 10, soft |-> FALSE]
     ELSE [total |-> total + c, soft |-> nextSoft]

PlayerKey(total, isSoft) == <<total, isSoft>>

\* the end of a loop over the card values that adds PROB_CARD(c) *
\* calculateHandMaxEV(the hand after c): subs[k] is what the k-th call
\* returned
PlayerHitLoop(subs) ==
  [cache |-> subs[10].cache,
   ev |-> ExpectOverCards([k \in 1..10 |-> subs[k].ev])]

RECURSIVE calculateHandMaxEV(_, _, _, _)
RECURSIVE HitEV(_, _, _, _)

\* calculateHandMaxEV(total, isSoft, dealerDist, ..) run with
\* playerCache = cache: the EV returned and playerCache afterwards
calculateHandMaxEV(total, isSoft, dealerDist, cache) ==
  LET cacheKey == PlayerKey(total, isSoft)
  IN IF cacheKey \in DOMAIN cache
     THEN [ev |-> cache[cacheKey], cache |-> cache]
     ELSE IF total > 21 THEN [ev |-> Scale(0 - 1, One), cache |-> cache]
     ELSE LET hit == HitEV(total, isSoft, dealerDist, cache)
              maxEV == MathMax(calculateStandEV(total, dealerDist), hit.ev)
          IN [ev |-> maxEV, cache |-> (cacheKey :> maxEV) @@ hit.cache]

\* the sum over the card values c of PROB_CARD(c) * calculateHandMaxEV(the
\* hand after c), run with playerCache = cache: the sum and playerCache
\* afterwards. The loop is written out as in getDealerOutcomeProbs.
HitEV(total, isSoft, dealerDist, cache) ==
  LET sub(k, c) ==
        LET next == PlayerNextTotal(total, isSoft, cardValues[k])
        IN calculateHandMaxEV(next.total, next.soft, dealerDist, c)
      s1  == sub(1, cache)
      s2  == sub(2, s1.cache)
      s3  == sub(3, s2.cache)
      s4  == sub(4, s3.cache)
      s5  == sub(5, s4.cache)
      s6  == sub(6, s5.cache)
      s7  == sub(7, s6.cache)
      s8  == sub(8, s7.cache)
      s9  == sub(9, s8.cache)
      s10 == sub(10, s9.cache)
  IN PlayerHitLoop(<<s1, s2, s3, s4, s5, s6, s7, s8, s9, s10>>)

\* the sum over the card values c of PROB_CARD(c) * calculateStandEV(the
\* total after c)
ForcedStandEV(total, isSoft, dealerDist) ==
  ExpectOverCards([k \in 1..10 |->
    calculateStandEV(PlayerNextTotal(total, isSoft, cardValues[k]).total,
                     dealerDist)])

\* the value of one card of the pair
PairCardVal(pairRank) ==
  IF pairRank \in {"J", "Q", "K", "10"} THEN 10
  ELSE IF pairRank = "A" THEN 11
  ELSE CHOOSE v \in 2..9 : pairRank = ToString(v)

\* results.sort((a, b) => b.ev - a.ev): descending, equal EVs keep their order
RECURSIVE SortByEV(_)
InsertByEV(r, sorted) ==
  LET ahead == { i \in DOMAIN sorted : ~Less(sorted[i].ev, r.ev) }
      n     == Cardinality(ahead)
  IN SubSeq(sorted, 1, n) \o <<r>> \o SubSeq(sorted, n + 1, Len(sorted))
SortByEV(results) ==
  IF results = <<>> THEN <<>>
  ELSE InsertByEV(results[Len(results)], SortByEV(SubSeq(results, 1, Len(results) - 1)))

NoRank == "null"

clearDealerCacheOnly(s) == [s EXCEPT !.dealerCache = <<>>]

\* clearEVCache
clearEVCache(s) == [s EXCEPT !.dealerCache = <<>>, !.playerCache = <<>>]

\* the hand of one card of the pair after its second card: a forced stand
\* for split Aces without doubleAfterSplit, played on otherwise
SplitHandEV(a, dealerDist, cache) ==
  LET cardVal == PairCardVal(a.pairRank)
  IN IF a.pairRank = "A" /\ ~a.rules.doubleAfterSplit
     THEN [ev |-> ForcedStandEV(cardVal, cardVal = 11, dealerDist),
           cache |-> cache]
     ELSE HitEV(cardVal, cardVal = 11, dealerDist, cache)

\* the list returned and the solver left, given what the dealer
\* distribution (dealer), the HIT loop (hit) and the SPLIT loop (splitHand)
\* computed
ActionResults(s, a, dealer, hit, splitHand) ==
  LET dealerDist == dealer.dist
      stand == [action |-> "STAND",
                ev |-> calculateStandEV(a.playerHandTotal, dealerDist)]
      double == [action |-> "DOUBLE",
                 ev |-> Scale(2, ForcedStandEV(a.playerHandTotal, a.isSoft,
                                               dealerDist))]
      surrender == IF a.rules.surrender # "none"
                   THEN <<[action |-> "SURRENDER", ev |-> Scale(0 - 1, HalfOf(One))]>>
                   ELSE <<>>
      hasSplit == a.isPair /\ a.pairRank # NoRank
      split == IF hasSplit
               THEN <<[action |-> "SPLIT", ev |-> Scale(2, splitHand.ev)]>>
               ELSE <<>>
      results == <<stand, [action |-> "HIT", ev |-> hit.ev], double>>
                 \o surrender \o split
  IN [dealerCache |-> dealer.cache,
      playerCache |-> IF hasSplit THEN splitHand.cache ELSE hit.cache,
      calls |-> Append(s.calls, a),
      dealerDist |-> <<dealerDist>>,
      result |-> <<SortByEV(results)>>]

\* the actions of calculateAllActionEVs once the dealer distribution is
\* computed: the HIT loop runs first, the SPLIT loop on the cache it left
ActionsAgainst(s, a, dealer, hit) ==
  ActionResults(s, a, dealer, hit, SplitHandEV(a, dealer.dist, hit.cache))

ActionsWithDealer(s, a, dealer) ==
  ActionsAgainst(s, a, dealer,
                 HitEV(a.playerHandTotal, a.isSoft, dealer.dist,
                       clearEVCache(s).playerCache))

\* calculateAllActionEVs(playerHandTotal, isSoft, isPair, pairRank,
\* dealerUpVal, rules) run on solver s: the solver afterwards, with the list
\* returned in result
AllActionEVs(s, a) ==
  ActionsWithDealer(s, a,
    getDealerOutcomeProbs(a.dealerUpVal, a.dealerUpVal = 11,
                          a.rules.dealerHitSoft17, TRUE,
                          clearEVCache(s).dealerCache))

\* the rule sets, hands and dealer upcards the solver is called with; two
\* of the hands have isPair and pairRank at odds
SolverRules ==
  { [dealerHitSoft17 |-> TRUE, surrender |-> "late", doubleAfterSplit |-> TRUE],
    [dealerHitSoft17 |-> FALSE, surrender |-> "none", doubleAfterSplit |-> FALSE] }
SolverHands ==
  { [playerHandTotal |-> 16, isSoft |-> FALSE, isPair |-> TRUE, pairRank |-> "8"],
    [playerHandTotal |-> 20, isSoft |-> FALSE, isPair |-> TRUE, pairRank |-> NoRank],
    [playerHandTotal |-> 13, isSoft |-> TRUE, isPair |-> FALSE, pairRank |-> "A"] }
SolverUpcards == {6, 10}
SolverInputs ==
  { [playerHandTotal |-> h.playerHandTotal, isSoft |-> h.isSoft,
     isPair |-> h.isPair, pairRank |-> h.pairRank, dealerUpVal |-> u,
     rules |-> r] : h \in SolverHands, u \in SolverUpcards, r \in SolverRules }

calculateAllActionEVs(a) ==
  /\ Len(solver.calls) < MaxSolverCalls
  /\ solver' = AllActionEVs(solver, a)
  /\ UNCHANGED <<tableVars, counting, probe>>

CallSolver == \E a \in SolverInputs : calculateAllActionEVs(a)

InitSolver ==
  /\ TableAtStart
  /\ counting = CountingIdle
  /\ probe = NoProbe
  /\ solver = FreshSolver

NextSolver == CallSolver

SpecSolver == InitSolver /\ [][NextSolver]_vars

\* the hands getDealerOutcomeProbs is called on: the upcards, with
\* isFirstCard, and the hands its recursion goes through
DealerUpcards == { [currentVal |-> v, isSoft |-> v = 11] : v \in 2..11 }
DealerHands ==
  { [currentVal |-> v, isSoft |-> FALSE] : v \in 4..26 }
  \cup { [currentVal |-> v, isSoft |-> TRUE] : v \in 13..21 }
DealerInputs ==
  { [fn |-> "getDealerOutcomeProbs", a |-> hand,
     b |-> [dealerHitSoft17 |-> h, isFirstCard |-> TRUE], out |-> <<>>] :
      hand \in DealerUpcards, h \in BOOLEAN }
  \cup
  { [fn |-> "getDealerOutcomeProbs", a |-> hand,
     b |-> [dealerHitSoft17 |-> h, isFirstCard |-> FALSE], out |-> <<>>] :
      hand \in DealerHands, h \in BOOLEAN }

ApplyDealerOutcome ==
  /\ probe.fn = "getDealerOutcomeProbs" /\ probe.out = <<>>
  /\ probe' = [probe EXCEPT !.out =
       <<getDealerOutcomeProbs(probe.a.currentVal, probe.a.isSoft,
                               probe.b.dealerHitSoft17, probe.b.isFirstCard,
                               FreshSolver.dealerCache).dist>>]
  /\ UNCHANGED <<tableVars, counting, solver>>

InitDealer ==
  /\ TableAtStart
  /\ counting = CountingIdle
  /\ solver = FreshSolver
  /\ probe \in DealerInputs

NextDealer == ApplyDealerOutcome

SpecDealer == InitDealer /\ [][NextDealer]_vars

\* ---------------------------------------------------------- basic strategy
RECURSIVE MinValue(_)
\* the sum of the cards with every Ace counted as 1
MinValue(cards) ==
  IF cards = <<>> THEN 0
  ELSE (IF Head(cards).rank = "A" THEN 1 ELSE VALUES(Head(cards).rank))
       + MinValue(Tail(cards))

getHandType(cards) ==
  IF Len(cards) = 2 /\ cards[1].rank = cards[2].rank THEN "PAIR"
  ELSE IF calculateHandValue(cards) # MinValue(cards) THEN "SOFT"
  ELSE "HARD"

\* the hands surrendered: a missing Hard 15 against 10, then the test of
\* getBasicStrategyAction
SurrendersSixteenOnly(type, total, dealerVal) ==
  type = "HARD" /\ total = 16 /\ dealerVal \in {9, 10, 11}

Surrenders(type, total, dealerVal) ==
  \/ type = "HARD" /\ total = 16 /\ (dealerVal = 9 \/ dealerVal = 10 \/ dealerVal = 11)
  \/ type = "HARD" /\ total = 15 /\ dealerVal = 10

\* the upcards a pair of 9s stands against: without the 7, then as tested
StandOnNinesHighOnly(dealerVal) == dealerVal = 10 \/ dealerVal = 11

StandOnNines(dealerVal) == dealerVal = 7 \/ dealerVal = 10 \/ dealerVal = 11

\* the hard-total rows of getBasicStrategyAction
HardTotalAction(total, dealerVal, gameRules) ==
  IF total >= 17 THEN "STAND"
  ELSE IF total = 16 THEN (IF dealerVal >= 7 THEN "HIT" ELSE "STAND")
  ELSE IF total = 15 THEN (IF dealerVal >= 7 THEN "HIT" ELSE "STAND")
  ELSE IF total = 13 \/ total = 14
    THEN (IF dealerVal >= 7 THEN "HIT" ELSE "STAND")
  ELSE IF total = 12
    THEN (IF dealerVal >= 4 /\ dealerVal <= 6 THEN "STAND" ELSE "HIT")
  ELSE IF total = 11
    THEN (IF gameRules.dealerHitSoft17 /\ dealerVal = 11 THEN "DOUBLE" ELSE "DOUBLE")
  ELSE IF total = 10 THEN (IF dealerVal >= 10 THEN "HIT" ELSE "DOUBLE")
  ELSE IF total = 9
    THEN (IF dealerVal >= 3 /\ dealerVal <= 6 THEN "DOUBLE" ELSE "HIT")
  ELSE "HIT"

\* the soft-total rows; "" where none returns (a soft total below 13)
SoftTotalAction(total, dealerVal, gameRules) ==
  IF total >= 20 THEN "STAND"
  ELSE IF total = 19
    THEN (IF gameRules.dealerHitSoft17 /\ dealerVal = 6 THEN "DOUBLE" ELSE "STAND")
  ELSE IF total = 18
    THEN (IF dealerVal >= 2 /\ dealerVal <= 6 THEN "DOUBLE"
          ELSE IF dealerVal >= 9 THEN "HIT" ELSE "STAND")
  ELSE IF total = 17
    THEN (IF dealerVal >= 3 /\ dealerVal <= 6 THEN "DOUBLE" ELSE "HIT")
  ELSE IF total = 15 \/ total = 16
    THEN (IF dealerVal >= 4 /\ dealerVal <= 6 THEN "DOUBLE" ELSE "HIT")
  ELSE IF total = 13 \/ total = 14
    THEN (IF dealerVal = 5 \/ dealerVal = 6 THEN "DOUBLE" ELSE "HIT")
  ELSE ""

\* the pair rows; "" where none returns (a pair of 5s)
PairAction(pairRank, dealerVal, gameRules) ==
  IF pairRank = "A" \/ pairRank = "8" THEN "SPLIT"
  ELSE IF VALUES(pairRank) = 10 THEN "STAND"
  ELSE IF pairRank = "9"
    THEN (IF StandOnNines(dealerVal) THEN "STAND" ELSE "SPLIT")
  ELSE IF pairRank = "7" THEN (IF dealerVal <= 7 THEN "SPLIT" ELSE "HIT")
  ELSE IF pairRank = "6" THEN (IF dealerVal <= 6 THEN "SPLIT" ELSE "HIT")
  ELSE IF pairRank = "4"
    THEN (IF gameRules.doubleAfterSplit /\ (dealerVal = 5 \/ dealerVal = 6)
          THEN "SPLIT" ELSE "HIT")
  ELSE IF pairRank = "2" \/ pairRank = "3"
    THEN (IF dealerVal <= 7 /\ gameRules.doubleAfterSplit THEN "SPLIT"
          ELSE IF dealerVal <= 3 /\ ~gameRules.doubleAfterSplit THEN "HIT"
          ELSE IF dealerVal <= 7 THEN "SPLIT"
          ELSE "HIT")
  ELSE ""

\* getBasicStrategyAction(hand, dealerUpCard, rules), hand.cards = cards and
\* dealerUpCard.value = dealerVal
getBasicStrategyAction(cards, dealerVal, gameRules) ==
  LET type == getHandType(cards)
      total == calculateHandValue(cards)
      pair == IF type = "PAIR" /\ Len(cards) = 2
              THEN PairAction(cards[1].rank, dealerVal, gameRules) ELSE ""
      soft == IF type = "SOFT" THEN SoftTotalAction(total, dealerVal, gameRules)
              ELSE ""
  IN IF gameRules.surrender # "none" /\ Len(cards) = 2
        /\ Surrenders(type, total, dealerVal)
     THEN "SURRENDER"
     ELSE IF pair # "" THEN pair
     ELSE IF soft # "" THEN soft
     ELSE HardTotalAction(total, dealerVal, gameRules)

\* the hands, upcards and rules the strategy is asked about: every two-card
\* hand, and the three-card hands over StrategyThirdRanks
AllRanks == {"2", "3", "4", "5", "6", "7", "8", "9", "10", "J", "Q", "K", "A"}
StrategyThirdRanks == {"A", "2", "5", "6", "10"}
UpCard(r) == [rank |-> r, isHidden |-> FALSE]
StrategyHands ==
  { <<UpCard(r1), UpCard(r2)>> : r1 \in AllRanks, r2 \in AllRanks }
  \cup { <<UpCard(r1), UpCard(r2), UpCard(r3)>> :
           r1 \in StrategyThirdRanks, r2 \in StrategyThirdRanks,
           r3 \in StrategyThirdRanks }
StrategyUpcards == {"2", "3", "4", "5", "6", "7", "8", "9", "10", "A"}
StrategyRules ==
  { [surrender |-> sr, doubleAfterSplit |-> das, dealerHitSoft17 |-> h17] :
      sr \in {"none", "late"}, das \in BOOLEAN, h17 \in BOOLEAN }
StrategyInputs ==
  { [fn |-> "getBasicStrategyAction", a |-> cards,
     b |-> [dealerVal |-> VALUES(u), rules |-> r], out |-> <<>>] :
      cards \in StrategyHands, u \in StrategyUpcards, r \in StrategyRules }

ApplyStrategy ==
  /\ probe.fn = "getBasicStrategyAction" /\ probe.out = <<>>
  /\ probe' = [probe EXCEPT !.out =
       <<getBasicStrategyAction(probe.a, probe.b.dealerVal, probe.b.rules)>>]
  /\ UNCHANGED <<tableVars, counting, solver>>

InitStrategy ==
  /\ TableAtStart
  /\ counting = CountingIdle
  /\ solver = FreshSolver
  /\ probe \in StrategyInputs

NextStrategy == ApplyStrategy

SpecStrategy == InitStrategy /\ [][NextStrategy]_vars

\* ------------------------------------------------------------------ claims
\* the dealer has a natural blackjack (two cards, 21 with the hole card up)
DealerNatural(hand) == IsTwoCard21(Unhidden(hand.cards))

\* a timer whose callback is resolveRound is run by this step
ResolveStep(i) == i \in DOMAIN timers /\ resolveRound(i)

RECURSIVE AcesAs11(_, _)
AcesAs11(value, aces) ==
  IF value > 21 /\ aces > 0 THEN AcesAs11(value - 10, aces - 1) ELSE aces

\* at least one Ace is still counted as 11 after the reduction of the total
SoftByReduction(cards) ==
  AcesAs11(SumVisible(cards), AcesVisible(cards)) > 0
  /\ calculateHandValue(cards) <= 21

\* C1's table, a natural blackjack being a two-card 21 of the hand dealt
\* initially (no split this round)
TableReturn(h, dHand, ratio, splitRound) ==
  LET pVal == calculateHandValue(h.cards)
      dVal == calculateHandValue(dHand.cards)
      pNatural == IsTwoCard21(h.cards) /\ ~splitRound
      dNatural == IsTwoCard21(dHand.cards)
  IN IF h.hasSurrendered THEN Half(h.bet)
     ELSE IF h.isBusted THEN 0
     ELSE IF pNatural /\ dNatural THEN h.bet
     ELSE IF pNatural THEN BlackjackReturn(h.bet, ratio)
     ELSE IF dVal > 21 THEN 2 * h.bet
     ELSE IF pVal > dVal THEN 2 * h.bet
     ELSE IF pVal = dVal THEN h.bet
     ELSE 0

RECURSIVE TableSum(_, _, _, _)
TableSum(hands, dHand, ratio, splitRound) ==
  IF hands = <<>> THEN 0
  ELSE TableReturn(Head(hands), dHand, ratio, splitRound)
       + TableSum(Tail(hands), dHand, ratio, splitRound)

\* C1: when a round is resolved, even money not taken (and no insurance
\* bought), the bankroll is credited the sum over the hands of the return of
\* the first matching rule: surrendered 0.5 x bet, busted 0, natural against
\* natural 1 x bet, natural 1 + ratio, dealer busted 2 x bet, else by totals.
CEX_C1 ==
  [][\A i \in DOMAIN timers :
       (ResolveStep(i) /\ ~evenMoneyTaken /\ insuranceBet = 0
        /\ timers[i].insuranceBet = 0)
       => bankroll' - bankroll =
            TableSum(timers[i].hands, timers[i].dHand, rules.blackjackPayout,
                     roundFlags.splitUsed)]_vars

\* C2: insurance bought for I > 0 is credited 3 x I at the resolution of the
\* round when the dealer has a natural blackjack, and nothing otherwise,
\* whatever the main hands return.
CEX_C2 ==
  [][\A i \in DOMAIN timers :
       (ResolveStep(i) /\ insuranceBet > 0)
       => bankroll' - bankroll
          - MainPayout(timers[i].hands, timers[i].dHand, timers[i].evenMoneyTaken)
          = IF DealerNatural(timers[i].dHand) THEN 3 * insuranceBet ELSE 0]_vars

\* C3: after even money was taken, the resolution returns exactly 2 x bet for
\* the blackjack hand, whether or not the dealer has blackjack.
CEX_C3 ==
  [][\A i \in DOMAIN timers :
       (ResolveStep(i) /\ evenMoneyTaken /\ Len(timers[i].hands) = 1
        /\ IsTwoCard21(timers[i].hands[1].cards))
       => bankroll' - bankroll = 2 * timers[i].hands[1].bet]_vars

\* C4: in the player's turn a request for an action that is not in the
\* legal-action set of the active hand changes nothing.
CEX_C4 ==
  [][\A a \in Actions :
       (gameState = "PLAYER_TURN" /\ a \notin getAllowedActions
        /\ handleAction(a))
       => UNCHANGED progVars]_vars

\* C5: placeBet(amount) with amount below the minimum bet of the rules or
\* above the bankroll changes nothing and deals no card.
CEX_C5 ==
  [][\A b \in BetAmounts :
       (gameState = "BETTING" /\ (b < rules.simMinBet \/ b > bankroll)
        /\ placeBet(b))
       => UNCHANGED progVars]_vars

\* C6: Split is legal only for a two-card hand of equal ranks with
\* bankroll >= bet and never once a split has occurred in the round, so a
\* round never holds more than two player hands.
CEX_C6 ==
  /\ Len(playerHands) <= 2
  /\ (gameState = "PLAYER_TURN" /\ "SPLIT" \in getAllowedActions)
       => LET h == playerHands[activeHandIndex + 1]
          IN /\ Len(h.cards) = 2
             /\ h.cards[1].rank = h.cards[2].rank
             /\ bankroll >= h.bet
             /\ ~roundFlags.splitUsed

\* C7: the dealer's turn ends with a hand that is busted, or 18 or more, or a
\* hard 17, or a soft 17 with dealerHitSoft17 false.
DealerFinal(cards) ==
  LET val == calculateHandValue(cards)
  IN \/ val > 21
     \/ val >= 18
     \/ val = 17 /\ ~SoftByReduction(cards)
     \/ val = 17 /\ SoftByReduction(cards) /\ ~rules.dealerHitSoft17

CEX_C7 ==
  [][(\E i \in DOMAIN timers : dealerDraws(i))
       => DealerFinal(dealerHand'.cards)]_vars

\* C8: isSoft(cards) is true exactly when an Ace is still counted as 11 after
\* the reduction of the total (for the hands of the table whose cards are all
\* face up).
CEX_C8 ==
  \A i \in DOMAIN playerHands :
    isSoftHand(playerHands[i].cards) = SoftByReduction(playerHands[i].cards)

\* C9: whatever is called in whatever state, the game state moves only along
\* the edges of the round's state machine (placeBet sets Dealing and then
\* the state the deal leads to: both moves are edges).
Edges ==
  { <<"SETUP", "BETTING">>, <<"BETTING", "DEALING">>,
    <<"DEALING", "INSURANCE">>, <<"DEALING", "PLAYER_TURN">>,
    <<"DEALING", "RESOLVING">>, <<"INSURANCE", "PLAYER_TURN">>,
    <<"INSURANCE", "RESOLVING">>, <<"PLAYER_TURN", "DEALER_TURN">>,
    <<"PLAYER_TURN", "RESOLVING">>, <<"DEALER_TURN", "RESOLVING">>,
    <<"RESOLVING", "BETTING">> }
  \cup { <<st, "SETUP">> : st \in SimStates }

EdgeOrStay(from, to) == from = to \/ <<from, to>> \in Edges

CEX_C9 ==
  [][IF nBets' # nBets
     THEN EdgeOrStay(gameState, "DEALING") /\ EdgeOrStay("DEALING", gameState')
     ELSE EdgeOrStay(gameState, gameState')]_vars

\* C10 as stated: after any insurance decision the round is resolved at once
\* if the dealer has a natural blackjack, and otherwise the state becomes
\* PlayerTurn.
ResolveScheduled ==
  /\ gameState' = gameState
  /\ timers' = Append(timers, ResolveTimer(DelayInsurance, Reveal(dealerHand),
                                           playerHands))
  /\ dealerHand' = Reveal(dealerHand)

GoesToPlayerTurn == gameState' = "PLAYER_TURN" /\ timers' = timers

CEX_C10 ==
  [][\A c \in Choices :
       handleInsuranceDecision(c)
       => IF DealerNatural(dealerHand) THEN ResolveScheduled
          ELSE GoesToPlayerTurn]_vars

\* C10 amended: after an insurance decision the round is resolved at once,
\* without a player turn, if the dealer has a natural blackjack or the
\* decision was even money, and otherwise the state becomes PlayerTurn.
THM_C10 ==
  [][\A c \in Choices :
       handleInsuranceDecision(c)
       => IF DealerNatural(dealerHand) \/ c = "even" THEN ResolveScheduled
          ELSE GoesToPlayerTurn]_vars

\* an even-money decision was taken against a dealer without blackjack and
\* the resolution is pending
WIT_C10 ==
  /\ gameState = "INSURANCE"
  /\ ~insuranceOffered
  /\ evenMoneyTaken
  /\ ~DealerNatural(dealerHand)
  /\ \E i \in DOMAIN timers :
       timers[i].kind = "resolve" /\ timers[i].delay = DelayInsurance

\* every hand of the round is busted or surrendered
EveryHandLost(hands) ==
  \A i \in DOMAIN hands : hands[i].isBusted \/ hands[i].hasSurrendered

EveryHandCompleted(hands) == \A i \in DOMAIN hands : hands[i].isCompleted

\* C11: when an action of the player's turn completes the last hand and
\* every hand is busted or surrendered, the hole card is revealed, the dealer
\* draws nothing and the round is resolved 1.5 s later without a dealer turn
\* in between; if some hand is neither busted nor surrendered the dealer's
\* turn is played.
CEX_C11 ==
  /\ [][\A a \in Actions :
         (gameState = "PLAYER_TURN" /\ handleAction(a)
          /\ ~EveryHandCompleted(playerHands)
          /\ EveryHandCompleted(playerHands'))
         => IF EveryHandLost(playerHands')
            THEN /\ dealerHand' = Reveal(dealerHand)
                 /\ gameState' = "PLAYER_TURN"
                 /\ timers' = Append(timers,
                                ResolveTimer(DelayAllBust, Reveal(dealerHand),
                                             playerHands'))
            ELSE /\ gameState' = "DEALER_TURN"
                 /\ Len(timers') = Len(timers) + 1
                 /\ timers'[Len(timers')].kind = "dealer"]_vars
  /\ [][\A i \in DOMAIN timers :
         (ResolveStep(i) /\ timers[i].delay = DelayAllBust)
         => /\ gameState # "DEALER_TURN"
            /\ gameState' = "RESOLVING"
            /\ Len(timers[i].dHand.cards) = 2
            /\ dealerHand' = dealerHand]_vars

\* the state of a round is cleared
RoundCleared ==
  /\ playerHands = <<>>
  /\ dealerHand.cards = <<>>
  /\ insuranceBet = 0
  /\ ~evenMoneyTaken
  /\ ~insuranceOffered

\* C12: a round that is in Resolving has the callback pending that takes it
\* back to Betting (so it returns there once the pause is over); Resolving is
\* left for Betting only, and the round arrives in Betting with no player
\* hand, an empty dealer hand, insurance bet 0 and the even-money flag false.
THM_C12 ==
  /\ [](gameState = "RESOLVING"
        => \E i \in DOMAIN timers : timers[i].kind = "toBetting")
  /\ [][\A i \in DOMAIN timers :
         (timers[i].kind = "toBetting" /\ backToBetting(i))
         => gameState' = "BETTING" /\ RoundCleared']_vars
  /\ [][(gameState = "RESOLVING" /\ gameState' # "RESOLVING")
        => gameState' = "BETTING" /\ RoundCleared']_vars

\* a resolved round has come back to Betting
WIT_C12 ==
  /\ gameState = "BETTING"
  /\ nBets > 0
  /\ roundResult # <<>>
  /\ RoundCleared

\* C13: in every reachable state every player hand is completed when it is
\* busted and completed when it is surrendered.
THM_C13 ==
  \A i \in DOMAIN playerHands :
    /\ playerHands[i].isBusted => playerHands[i].isCompleted
    /\ playerHands[i].hasSurrendered => playerHands[i].isCompleted

\* a hand busted by a Hit is on the table
WIT_C13 ==
  \E i \in DOMAIN playerHands :
    /\ playerHands[i].isBusted
    /\ ~playerHands[i].hasDoubled
    /\ ~playerHands[i].hasSurrendered
    /\ calculateHandValue(playerHands[i].cards) > 21

\* C14: the das flag of the round is raised exactly by a Double made after a
\* Split of the same round: a Double raises it if and only if a split was
\* already used, nothing else raises it, it stays raised until the
\* resolution, and placing the next bet lowers it (and the split flag).
THM_C14 ==
  /\ [][(handleAction("DOUBLE") /\ gameState = "PLAYER_TURN")
        => roundFlags'.das = (roundFlags.das \/ roundFlags.splitUsed)]_vars
  /\ [][roundFlags'.splitUsed # roundFlags.splitUsed
        => \/ handleAction("SPLIT") /\ roundFlags'.splitUsed
           \/ nBets' # nBets /\ ~roundFlags'.splitUsed]_vars
  /\ [][nBets' # nBets => ~roundFlags'.das /\ ~roundFlags'.splitUsed]_vars
  /\ [][roundFlags'.das # roundFlags.das
        => \/ handleAction("DOUBLE") /\ roundFlags.splitUsed
           \/ nBets' # nBets]_vars

\* a round doubled after a split is being resolved with the flag raised
WIT_C14 ==
  /\ gameState = "RESOLVING"
  /\ roundFlags.das
  /\ roundFlags.splitUsed
  /\ \E i \in DOMAIN playerHands : playerHands[i].hasDoubled

\* round(num / den) for den > 0, exact ties away from zero
RoundHalfAway(num, den) ==
  IF num >= 0 THEN (2 * num + den) \div (2 * den)
  ELSE 0 - ((2 * (0 - num) + den) \div (2 * den))

\* round(num / den) for den > 0, exact ties to the even neighbour
RoundHalfEven(num, den) ==
  LET q == num \div den
      r == num % den
  IN IF 2 * r < den THEN q
     ELSE IF 2 * r > den THEN q + 1
     ELSE IF q % 2 = 0 THEN q ELSE q + 1

\* C18: calculateTrueCount returns 0 when decksRemaining <= 0 and otherwise
\* runningCount / decksRemaining rounded to the nearest integer, an exact
\* .5 tie going where round-half-away-from-zero or round-half-to-even
\* sends it (stated per application: either rule is accepted for each one)
CEX_C18 ==
  (probe.fn = "calculateTrueCount" /\ probe.out # <<>>)
  => IF probe.b <= 0 THEN probe.out[1] = 0
     ELSE probe.out[1] \in { RoundHalfAway(2 * probe.a, probe.b),
                             RoundHalfEven(2 * probe.a, probe.b) }

\* C19: calculateDecksRemaining returns the cards left, over 52, rounded
\* to the nearest half deck when no more cards were dealt than the shoe
\* holds, and 0 when more were dealt
CEX_C19 ==
  (probe.fn = "calculateDecksRemaining" /\ probe.out # <<>>)
  => LET cardsLeft == probe.a * CardsPerDeck - probe.b
         halfDeck  == CardsPerDeck \div 2
     IN IF cardsLeft >= 0
        THEN /\ 2 * (probe.out[1] * halfDeck - cardsLeft) <= halfDeck
             /\ 2 * (cardsLeft - probe.out[1] * halfDeck) <= halfDeck
        ELSE probe.out[1] = 0

\* a step of nextRound that plays a round, and a step of the first round
NextRoundStep ==
  /\ counting.state = "FEEDBACK" /\ counting'.state = "PLAYING"
  /\ counting'.played = counting.played + 1
FirstRoundStep ==
  /\ Len(counting'.starts) < Len(counting.starts)
  /\ counting'.played = counting.played + 1

\* C20: a round that starts with fewer than 52 cards in the shoe is dealt
\* from a fresh shoe of deckCount decks with the running count and the
\* cards-dealt counter reset to 0 before its first card (so that after the
\* round the counter holds that round's cards only); a round that starts
\* with 52 cards or more is dealt from the shoe as it is, and keeps the
\* running count and the cards counted so far
THM_C20 ==
  /\ [][NextRoundStep =>
         LET n == counting'.currentRound[1].n
         IN IF counting.deckLen < 52
            THEN /\ counting'.deckLen = counting.snapshot[1].deckCount * 52 - n
                 /\ counting'.runningCount = 0
                 /\ counting'.cardsDealtTotal = n
            ELSE /\ counting'.deckLen = counting.deckLen - n
                 /\ counting'.runningCount = counting.runningCount
                 /\ counting'.cardsDealtTotal >= counting.cardsDealtTotal + n]_vars
  /\ [][FirstRoundStep =>
         LET n == counting'.currentRound[1].n
         IN /\ counting'.deckLen >= 52 - n
            /\ counting'.deckLen = counting.deckCount * 52 - n
            /\ counting'.runningCount = 0
            /\ counting'.cardsDealtTotal = n]_vars

\* the fourth round of a two-deck session: the third started with exactly
\* 52 cards and was dealt from them, the fourth started with 48 and was
\* dealt from a fresh shoe
WIT_C20 ==
  /\ counting.snapshot # <<>> /\ counting.deckCount = 2
  /\ counting.roundNumber = 4 /\ counting.currentRound # <<>>
  /\ counting.deckLen = 104 - counting.currentRound[1].n
  /\ counting.cardsDealtTotal = counting.currentRound[1].n
  /\ counting.feedback # <<>> /\ counting.feedback[1].rcBefore = 0

\* a step that is the call calculateAllActionEVs(a)
SolverCall(a) == solver'.calls = Append(solver.calls, a)

\* C15: whatever calls were made before, a call of calculateAllActionEVs
\* returns the list the same call returns on a solver whose caches are
\* empty, and leaves in both caches exactly the entries that call leaves
\* there: nothing an earlier call wrote is read or kept
THM_C15 ==
  [][\A a \in SolverInputs :
       SolverCall(a) =>
         /\ solver'.result = AllActionEVs(FreshSolver, a).result
         /\ solver'.dealerCache = AllActionEVs(FreshSolver, a).dealerCache
         /\ solver'.playerCache = AllActionEVs(FreshSolver, a).playerCache]_vars

\* a second call was made with another upcard and another rule set than
\* the first, and for the same hand it returned other EVs
WIT_C15 ==
  /\ Len(solver.calls) = 2
  /\ solver.calls[1].dealerUpVal # solver.calls[2].dealerUpVal
  /\ solver.calls[1].rules # solver.calls[2].rules
  /\ solver.calls[1].playerHandTotal = solver.calls[2].playerHandTotal
  /\ solver.result # AllActionEVs(FreshSolver, solver.calls[1]).result
  /\ solver.playerCache # <<>>

\* isPair and pairRank at odds: a pair without its rank, or a rank
\* without a pair
PairArgsAtOdds(a) == a.isPair # (a.pairRank # NoRank)

\* C16: a call of calculateAllActionEVs with isPair true and no pairRank,
\* or with a pairRank and isPair false, returns no EV list
CEX_C16 ==
  [][\A a \in SolverInputs :
       (SolverCall(a) /\ PairArgsAtOdds(a)) => solver'.result = <<>>]_vars

\* the sum of the seven masses of a dealer distribution
SumOfMasses(dist) ==
  Normalize([i \in Limbs |->
    dist["d17"][i] + dist["d18"][i] + dist["d19"][i] + dist["d20"][i]
    + dist["d21"][i] + dist["bust"][i] + dist["bj"][i]])

\* C17: for every dealer upcard value in 2..11 and both settings of
\* dealerHitSoft17 the seven masses of the distribution
\* getDealerOutcomeProbs returns sum to 1, exactly
THM_C17 ==
  (/\ probe.fn = "getDealerOutcomeProbs" /\ probe.out # <<>>
   /\ probe.b.isFirstCard)
  => SumOfMasses(probe.out[1]) = One

\* the distribution of the Ace upcard under dealerHitSoft17 has been
\* computed, with mass on every total and on bust
WIT_C17 ==
  /\ probe.fn = "getDealerOutcomeProbs" /\ probe.out # <<>>
  /\ probe.b.isFirstCard /\ probe.b.dealerHitSoft17
  /\ probe.a.currentVal = 11
  /\ \A b \in Buckets \ {"bj"} : probe.out[1][b] # Zero

\* the strategy was asked about the hand probe.a and has answered
StrategyAnswered ==
  probe.fn = "getBasicStrategyAction" /\ probe.out # <<>>

\* the pair table as stated: the action for a pair of rank r against the
\* upcard value d; "" where nothing is stated (2s and 3s without
\* doubleAfterSplit)
StatedPairAction(r, d, das) ==
  IF r \in {"A", "8"} THEN "SPLIT"
  ELSE IF r \in {"10", "J", "Q", "K"} THEN "STAND"
  ELSE IF r = "9" THEN (IF d \in (2..6) \cup {8, 9} THEN "SPLIT" ELSE "STAND")
  ELSE IF r = "7" THEN (IF d <= 7 THEN "SPLIT" ELSE "HIT")
  ELSE IF r = "6" THEN (IF d <= 6 THEN "SPLIT" ELSE "HIT")
  ELSE IF r = "4" THEN (IF das /\ d \in {5, 6} THEN "SPLIT" ELSE "HIT")
  ELSE IF r \in {"2", "3"}
    THEN (IF ~das THEN "" ELSE IF d <= 7 THEN "SPLIT" ELSE "HIT")
  ELSE (IF d < 10 THEN "DOUBLE" ELSE "HIT")

\* C21: for a two-card pair getBasicStrategyAction returns the action of
\* the pair table: Split for Aces and 8s, Stand for tens, 9s split against
\* 2-6, 8, 9 and stand against 7, 10, Ace, 7s split up to 7, 6s up to 6, 4s
\* only with doubleAfterSplit against 5 or 6, 2s and 3s with
\* doubleAfterSplit up to 7, each else Hit, and 5s play as a hard 10
THM_C21 ==
  (/\ StrategyAnswered
   /\ Len(probe.a) = 2 /\ probe.a[1].rank = probe.a[2].rank)
  => LET stated == StatedPairAction(probe.a[1].rank, probe.b.dealerVal,
                                    probe.b.rules.doubleAfterSplit)
     IN stated # "" => probe.out[1] = stated

\* a pair of 9s against a 7 was answered Stand although surrender is on
WIT_C21 ==
  /\ StrategyAnswered
  /\ Len(probe.a) = 2 /\ probe.a[1].rank = "9" /\ probe.a[2].rank = "9"
  /\ probe.b.dealerVal = 7 /\ probe.b.rules.surrender = "late"
  /\ probe.out[1] = "STAND"

\* the hands surrendered as stated: two cards that are no pair, with no Ace
\* counted as 11, totalling 16 against 9, 10 or Ace or 15 against 10
StatedSurrender(cards, d) ==
  /\ Len(cards) = 2 /\ cards[1].rank # cards[2].rank
  /\ ~SoftByReduction(cards)
  /\ \/ calculateHandValue(cards) = 16 /\ d \in {9, 10, 11}
     \/ calculateHandValue(cards) = 15 /\ d = 10

\* C22: getBasicStrategyAction returns Surrender exactly for a two-card
\* hard hand of 16 against 9, 10 or Ace, or of 15 against 10, when
\* rules.surrender is not none: never when it is none, never for three
\* cards, a pair or a soft hand
THM_C22 ==
  StrategyAnswered
  => ((probe.out[1] = "SURRENDER")
      <=> (probe.b.rules.surrender # "none"
           /\ StatedSurrender(probe.a, probe.b.dealerVal)))

\* a hard 15 of two cards against a 10 was answered Surrender, under late
\* surrender
WIT_C22 ==
  /\ StrategyAnswered
  /\ Len(probe.a) = 2 /\ calculateHandValue(probe.a) = 15
  /\ probe.b.dealerVal = 10 /\ probe.b.rules.surrender = "late"
  /\ probe.out[1] = "SURRENDER"

\* C23: a round is resolved once: a resolveRound callback runs only while
\* the round has no result yet (roundResult is emptied by the bet that
\* starts the round and set by its resolution)
CEX_C23 ==
  [][\A i \in DOMAIN timers : ResolveStep(i) => roundResult = <<>>]_vars

\* the places of the cards on the table: <<0, j>> is the dealer's j-th
\* card, <<i, j>> the j-th card of player hand i
PlacedCards ==
  { <<0, j>> : j \in DOMAIN dealerHand.cards }
  \cup UNION { { <<i, j>> : j \in DOMAIN playerHands[i].cards } :
               i \in DOMAIN playerHands }
CardAt(p) ==
  IF p[1] = 0 THEN dealerHand.cards[p[2]] ELSE playerHands[p[1]].cards[p[2]]
\* the same card of the same shoe
SameCard(c, d) == c.gen = d.gen /\ c.idx = d.idx

\* C24: every card is in one place: no card of the shoe lies in two places
\* of the table, and no card on the table is still in the remaining shoe
CEX_C24 ==
  /\ \A p \in PlacedCards, q \in PlacedCards :
       p # q => ~SameCard(CardAt(p), CardAt(q))
  /\ \A p \in PlacedCards :
       CardAt(p).gen = deck.gen => CardAt(p).idx > deck.len

\* what a hand returns when a two-card 21 counts as any other 21
OrdinaryReturn(h, dHand) ==
  LET pVal == calculateHandValue(h.cards)
      dVal == calculateHandValue(dHand.cards)
  IN IF h.hasSurrendered THEN Half(h.bet)
     ELSE IF h.isBusted THEN 0
     ELSE IF dVal > 21 \/ pVal > dVal THEN h.bet * 2
     ELSE IF pVal = dVal THEN h.bet
     ELSE 0

RECURSIVE OrdinaryPayout(_, _)
OrdinaryPayout(hands, dHand) ==
  IF hands = <<>> THEN 0
  ELSE OrdinaryReturn(Head(hands), dHand) + OrdinaryPayout(Tail(hands), dHand)

\* C25: the hands made by a split are settled as ordinary hands: a
\* resolution of two or more hands credits, besides the insurance return,
\* 2 x bet for a win, 1 x bet for a push and nothing for a loss, also for a
\* two-card 21
CEX_C25 ==
  [][\A i \in DOMAIN timers :
       (ResolveStep(i) /\ Len(timers[i].hands) > 1)
       => bankroll' = bankroll
                      + OrdinaryPayout(timers[i].hands, timers[i].dHand)
                      + InsurancePayout(timers[i].insuranceBet,
                                        timers[i].dHand)]_vars

\* C26: the delta a round's resolution reports is the bankroll after the
\* resolution minus the bankroll before the round's bet was placed
\* (stated of the first resolution of a round, the one that finds no
\* result yet)
CEX_C26 ==
  [][\A i \in DOMAIN timers :
       (ResolveStep(i) /\ roundResult = <<>> /\ roundStartBankroll # <<>>)
       => roundResult'[1].delta = bankroll' - roundStartBankroll[1]]_vars

\* C27: the bankroll is never negative
CEX_C27 == bankroll >= 0

\* C28: no draw of a round is attempted on a shoe that holds fewer cards
\* than the draw takes: a Hit or a Double that passes its bankroll test
\* finds a card in the shoe, a Split that passes it finds two.
DrawsAttempted(a) ==
  IF activeHandIndex + 1 \notin DOMAIN playerHands THEN 0
  ELSE LET currentHand == playerHands[activeHandIndex + 1]
       IN CASE a = "HIT" -> 1
            [] a = "DOUBLE" -> IF CannotAfford(currentHand) THEN 0 ELSE 1
            [] a = "SPLIT" -> IF CannotAfford(currentHand) THEN 0 ELSE 2
            [] OTHER -> 0

CEX_C28 ==
  [][\A a \in Actions :
       (OfferedAction(a)
        /\ handleActionWithin(a, LowShoeMaxCards, LowShoeMaxHands))
       => DrawsAttempted(a) <= deck.len]_vars

\* C29: the cards-dealt count that submitCount computes decksRemaining
\* from, and the one nextRound starts the next round with, is the number of
\* cards taken from the shoe since it was shuffled: deckCount * 52 minus
\* the cards left in it.
TakenFromShoe ==
  counting.snapshot[1].deckCount * CardsPerDeck - counting.deckLen

CEX_C29 ==
  [][/\ submitCount => SubmittedCardsDealt = TakenFromShoe
     /\ (NextRound /\ counting.snapshot # <<>>)
          => CarriedCardsDealt = TakenFromShoe]_vars

\* the recursion step applied to hands: the state (total, isSoft) of a hand
\* of at most MaxStepCards cards and total at most 21, and the value of the
\* card drawn next
StepRanks == {"A", "2", "5", "6", "10"}
StepHands ==
  { h \in UNION { [1..n -> {UpCard(r) : r \in StepRanks}] : n \in 1..MaxStepCards } :
      calculateHandValue(h) <= 21 }
\* the rank that counts cardVal (10 for the four ranks that count 10)
RankOfValue == <<"2", "3", "4", "5", "6", "7", "8", "9", "10", "A">>
StepInputs ==
  { [fn |-> "step",
     a |-> [hand |-> h, total |-> calculateHandValue(h),
            isSoft |-> SoftByReduction(h)],
     b |-> cardValues[k], out |-> <<>>] : h \in StepHands, k \in 1..10 }

ApplyStep ==
  /\ probe.fn = "step" /\ probe.out = <<>>
  /\ probe' = [probe EXCEPT !.out =
       <<[dealer |-> DealerNextVal(probe.a.total, probe.a.isSoft, probe.b),
          player |-> PlayerNextTotal(probe.a.total, probe.a.isSoft, probe.b)]>>]
  /\ UNCHANGED <<tableVars, counting, solver>>

InitStep ==
  /\ TableAtStart
  /\ counting = CountingIdle
  /\ solver = FreshSolver
  /\ probe \in StepInputs

NextStep == ApplyStep

SpecStep == InitStep /\ [][NextStep]_vars

\* C30: stepping the state (handTotal(h), isSoft(h)) of a hand h of total at
\* most 21 on a card value c gives (handTotal(h + c), isSoft(h + c)), in the
\* dealer recursion and in the player recursion.
CEX_C30 ==
  (probe.fn = "step" /\ probe.out # <<>>)
  => LET drawn == Append(probe.a.hand, UpCard(RankOfValue[probe.b - 1]))
     IN /\ probe.out[1].dealer = [val |-> calculateHandValue(drawn),
                                  soft |-> SoftByReduction(drawn)]
        /\ probe.out[1].player = [total |-> calculateHandValue(drawn),
                                  soft |-> SoftByReduction(drawn)]

====
